---- MODULE Spec2Model ----
(***************************************************************************)
(* A model of src/code_explorer.py: the billing request handler            *)
(* (lambda_handler) with its helpers build_filters, get_aws_billing_data   *)
(* and format_table.                                                       *)
(*                                                                         *)
(* Python str values are TLA+ strings; a character is a string of length   *)
(* one.  A cost (a float the code keeps rounded to two places) is an       *)
(* integer number of cents.  Python's None is the record NoneVal.          *)
(***************************************************************************)
EXTENDS Integers, Sequences, FiniteSets, TLC

(***************************************************************************)
(* Bounds of the model.                                                    *)
(***************************************************************************)
\* how many times midnight may pass while one request is processed
MaxTicks == 1
\* how many query-string parameters a map given to build_filters holds
MaxParams == 3
\* how many records a list given to format_table holds
MaxRows == 3
\* how many time-period buckets / groups per bucket a provider response holds
MaxBuckets == 2
MaxGroups == 2

NoneVal == [none |-> TRUE]

(***************************************************************************)
(* str primitives.                                                         *)
(***************************************************************************)
Char(s, i) == IF 1 <= i /\ i <= Len(s) THEN SubSeq(s, i, i) ELSE ""

Digits == {"0", "1", "2", "3", "4", "5", "6", "7", "8", "9"}
NonZeroDigits == Digits \ {"0"}

DigitVal(c) ==
    CASE c = "0" -> 0 [] c = "1" -> 1 [] c = "2" -> 2 [] c = "3" -> 3
      [] c = "4" -> 4 [] c = "5" -> 5 [] c = "6" -> 6 [] c = "7" -> 7
      [] c = "8" -> 8 [] c = "9" -> 9

DigitChar(n) ==
    CASE n = 0 -> "0" [] n = 1 -> "1" [] n = 2 -> "2" [] n = 3 -> "3"
      [] n = 4 -> "4" [] n = 5 -> "5" [] n = 6 -> "6" [] n = 7 -> "7"
      [] n = 8 -> "8" [] n = 9 -> "9"

IsDigits(s) == Len(s) > 0 /\ \A i \in 1..Len(s) : Char(s, i) \in Digits

\* int(s) for a string of decimal digits
RECURSIVE ToInt(_)
ToInt(s) ==
    IF Len(s) = 0 THEN 0
    ELSE 10 * ToInt(SubSeq(s, 1, Len(s) - 1)) + DigitVal(Char(s, Len(s)))

\* str(n) for n >= 0
RECURSIVE IntStr(_)
IntStr(n) == IF n < 10 THEN DigitChar(n) ELSE IntStr(n \div 10) \o DigitChar(n % 10)

\* c * n
RECURSIVE Repeat(_, _)
Repeat(c, n) == IF n <= 0 THEN "" ELSE c \o Repeat(c, n - 1)

\* s.ljust(w) and s.rjust(w): pad with spaces up to w, never truncate
Ljust(s, w) == s \o Repeat(" ", w - Len(s))
Rjust(s, w) == Repeat(" ", w - Len(s)) \o s

\* "%0<w>d" % n
ZeroPad(n, w) == Repeat("0", w - Len(IntStr(n))) \o IntStr(n)

StartsWith(s, p) == Len(s) >= Len(p) /\ SubSeq(s, 1, Len(p)) = p

\* s[k:]
DropPrefix(s, k) == SubSeq(s, k + 1, Len(s))

\* s.split(sep) for a one-character sep: the pieces between separators,
\* empty pieces kept, so "" splits to [""]
RECURSIVE SplitFrom(_, _, _, _)
SplitFrom(s, sep, i, cur) ==
    IF i > Len(s) THEN <<cur>>
    ELSE IF Char(s, i) = sep THEN <<cur>> \o SplitFrom(s, sep, i + 1, "")
    ELSE SplitFrom(s, sep, i + 1, cur \o Char(s, i))

Split(s, sep) == SplitFrom(s, sep, 1, "")

\* sep.join(lines)
RECURSIVE Join(_, _)
Join(lines, sep) ==
    IF Len(lines) = 0 THEN ""
    ELSE IF Len(lines) = 1 THEN lines[1]
    ELSE lines[1] \o sep \o Join(Tail(lines), sep)

UpperToLower(c) ==
    CASE c = "A" -> "a" [] c = "B" -> "b" [] c = "E" -> "e" [] c = "J" -> "j"
      [] c = "L" -> "l" [] c = "N" -> "n" [] c = "O" -> "o" [] c = "S" -> "s"
      [] c = "T" -> "t" [] OTHER -> c

\* s.lower(), over the letters the inputs use
RECURSIVE Lower(_)
Lower(s) == IF Len(s) = 0 THEN "" ELSE UpperToLower(Char(s, 1)) \o Lower(DropPrefix(s, 1))

(***************************************************************************)
(* datetime: a date is <<year, month, day>>.                               *)
(***************************************************************************)
IsLeap(y) == (y % 4 = 0 /\ y % 100 # 0) \/ y % 400 = 0

DaysInMonth(y, m) ==
    IF m = 2 THEN (IF IsLeap(y) THEN 29 ELSE 28)
    ELSE IF m \in {4, 6, 9, 11} THEN 30
    ELSE 31

\* a < b for datetimes at midnight
DateLess(a, b) ==
    \/ a[1] < b[1]
    \/ a[1] = b[1] /\ a[2] < b[2]
    \/ a[1] = b[1] /\ a[2] = b[2] /\ a[3] < b[3]

\* now.replace(day=1)
FirstOfMonth(d) == <<d[1], d[2], 1>>

\* a variant that does not step back over the start of a month
YesterdaySameMonth(d) == <<d[1], d[2], IF d[3] > 1 THEN d[3] - 1 ELSE 1>>

\* now - timedelta(days=1)
Yesterday(d) ==
    IF d[3] > 1 THEN <<d[1], d[2], d[3] - 1>>
    ELSE IF d[2] > 1 THEN <<d[1], d[2] - 1, DaysInMonth(d[1], d[2] - 1)>>
    ELSE <<d[1] - 1, 12, 31>>

\* the date the clock shows after the next midnight
NextDay(d) ==
    IF d[3] < DaysInMonth(d[1], d[2]) THEN <<d[1], d[2], d[3] + 1>>
    ELSE IF d[2] < 12 THEN <<d[1], d[2] + 1, 1>>
    ELSE <<d[1] + 1, 1, 1>>

\* d.strftime('%Y-%m-%d')
Strftime(d) == ZeroPad(d[1], 4) \o "-" \o ZeroPad(d[2], 2) \o "-" \o ZeroPad(d[3], 2)

(***************************************************************************)
(* datetime.strptime(s, '%Y-%m-%d').  The format compiles to the regular   *)
(* expression  (\d\d\d\d)-(1[0-2]|0[1-9]|[1-9])-(3[01]|[12]\d|0[1-9]|      *)
(* [1-9]| [1-9]) matched at the start of s, alternatives tried in order;   *)
(* text left after the match, and a day the month does not have, are       *)
(* ValueErrors too.                                                        *)
(***************************************************************************)
\* length of the month field matched at position p, trying 1[0-2], 0[1-9], [1-9]
MonthAlternatives(s, p) ==
    LET a == Char(s, p)
        b == Char(s, p + 1)
    IN  (IF a = "1" /\ b \in {"0", "1", "2"} THEN <<2>> ELSE <<>>)
        \o (IF a = "0" /\ b \in NonZeroDigits THEN <<2>> ELSE <<>>)
        \o (IF a \in NonZeroDigits THEN <<1>> ELSE <<>>)

\* length of the day field matched at position q (0: no alternative matches)
DayLen(s, q) ==
    LET a == Char(s, q)
        b == Char(s, q + 1)
    IN  IF a = "3" /\ b \in {"0", "1"} THEN 2
        ELSE IF a \in {"1", "2"} /\ b \in Digits THEN 2
        ELSE IF a = "0" /\ b \in NonZeroDigits THEN 2
        ELSE IF a \in NonZeroDigits THEN 1
        ELSE IF a = " " /\ b \in NonZeroDigits THEN 2
        ELSE 0

\* the month alternatives after which "-" and a day follow (backtracking order)
MonthMatches(s) ==
    SelectSeq(MonthAlternatives(s, 6),
              LAMBDA L : Char(s, 6 + L) = "-" /\ DayLen(s, 7 + L) > 0)

RegexMatches(s) ==
    /\ Len(s) >= 4
    /\ IsDigits(SubSeq(s, 1, 4))
    /\ Char(s, 5) = "-"
    /\ Len(MonthMatches(s)) > 0

DayText(t) == IF Char(t, 1) = " " THEN DropPrefix(t, 1) ELSE t

\* [ok |-> TRUE, date |-> d], or [ok |-> FALSE, msg |-> the ValueError's text]
Strptime(s) ==
    IF ~RegexMatches(s)
    THEN [ok |-> FALSE,
          msg |-> "time data '" \o s \o "' does not match format '%Y-%m-%d'"]
    ELSE LET ml  == MonthMatches(s)[1]
             dl  == DayLen(s, 7 + ml)
             end == 6 + ml + dl
             y   == ToInt(SubSeq(s, 1, 4))
             m   == ToInt(SubSeq(s, 6, 5 + ml))
             d   == ToInt(DayText(SubSeq(s, 7 + ml, end)))
         IN  IF Len(s) # end
             THEN [ok |-> FALSE,
                   msg |-> "unconverted data remains: " \o DropPrefix(s, end)]
             ELSE IF y = 0
             THEN [ok |-> FALSE, msg |-> "year 0 is out of range"]
             ELSE IF d > DaysInMonth(y, m)
             THEN [ok |-> FALSE, msg |-> "day is out of range for month"]
             ELSE [ok |-> TRUE, date |-> <<y, m, d>>]

(***************************************************************************)
(* float and json.  The provider's amounts the model draws have at most    *)
(* two fractional digits, for which round(float(s), 2) is the amount       *)
(* itself; every other string the model draws is not a number.             *)
(***************************************************************************)
IsAmount(s) ==
    LET body == IF Char(s, 1) = "-" THEN DropPrefix(s, 1) ELSE s
        parts == Split(body, ".")
    IN  /\ Len(parts) \in {1, 2}
        /\ IsDigits(parts[1])
        /\ Len(parts) = 2 => IsDigits(parts[2]) /\ Len(parts[2]) <= 2

\* round(float(s), 2), in cents
AmountCents(s) ==
    LET neg == Char(s, 1) = "-"
        body == IF neg THEN DropPrefix(s, 1) ELSE s
        parts == Split(body, ".")
        frac == IF Len(parts) = 1 THEN 0
                ELSE IF Len(parts[2]) = 1 THEN 10 * ToInt(parts[2])
                ELSE ToInt(parts[2])
        mag == 100 * ToInt(parts[1]) + frac
    IN  IF neg THEN 0 - mag ELSE mag

\* [ok |-> TRUE, cents |-> c], or [ok |-> FALSE, msg |-> the ValueError's text]
ParseFloat(s) ==
    IF IsAmount(s) THEN [ok |-> TRUE, cents |-> AmountCents(s)]
    ELSE [ok |-> FALSE, msg |-> "could not convert string to float: '" \o s \o "'"]

Abs(n) == IF n < 0 THEN 0 - n ELSE n

\* f"{cost:.2f}"
FormatCost(c) ==
    (IF c < 0 THEN "-" ELSE "") \o IntStr(Abs(c) \div 100) \o "." \o ZeroPad(Abs(c) % 100, 2)

\* repr(cost), as json.dumps writes a float
FloatRepr(c) ==
    LET f == Abs(c) % 100
    IN  (IF c < 0 THEN "-" ELSE "") \o IntStr(Abs(c) \div 100) \o "."
        \o (IF f % 10 = 0 THEN IntStr(f \div 10) ELSE ZeroPad(f, 2))

\* json.dumps of a str (the model's strings hold nothing json escapes)
JsonStr(s) == "\"" \o s \o "\""

\* json.dumps({'error': msg})
JsonError(msg) == "{\"error\": " \o JsonStr(msg) \o "}"

\* json.dumps({'message': msg})
JsonMessage(msg) == "{\"message\": " \o JsonStr(msg) \o "}"

\* json.dumps of one record {'Service': ..., 'Cost (USD)': ...}
JsonRecord(item) ==
    "{\"Service\": " \o JsonStr(item.Service) \o ", \"Cost (USD)\": "
        \o FloatRepr(item.Cost) \o "}"

\* json.dumps({'data': data})
JsonData(data) ==
    "{\"data\": [" \o Join([i \in 1..Len(data) |-> JsonRecord(data[i])], ", ") \o "]}"

(***************************************************************************)
(* A parameter map (a dict in insertion order) is a sequence of            *)
(* <<key, value>> pairs with distinct keys.                                *)
(***************************************************************************)
HasKey(params, k) == \E i \in 1..Len(params) : params[i][1] = k

\* params.get(k, default)
Get(params, k, default) ==
    IF HasKey(params, k)
    THEN params[CHOOSE i \in 1..Len(params) : params[i][1] = k][2]
    ELSE default

(***************************************************************************)
(* build_filters                                                           *)
(***************************************************************************)
DimensionFilter(key, value) ==
    [Dimensions |-> [Key |-> key, Values |-> Split(value, ",")]]

TagFilter(param_key, value) ==
    [Tags |-> [Key |-> DropPrefix(param_key, 4), Values |-> Split(value, ",")]]

\* the loop over params: one Tags filter per key that starts with tag_
RECURSIVE TagFilters(_)
TagFilters(params) ==
    IF Len(params) = 0 THEN <<>>
    ELSE (IF StartsWith(params[1][1], "tag_")
          THEN <<TagFilter(params[1][1], params[1][2])>>
          ELSE <<>>)
         \o TagFilters(Tail(params))

\* the list filters before it is combined
FilterList(params) ==
    (IF HasKey(params, "services")
     THEN <<DimensionFilter("SERVICE", Get(params, "services", ""))>> ELSE <<>>)
    \o (IF HasKey(params, "regions")
        THEN <<DimensionFilter("REGION", Get(params, "regions", ""))>> ELSE <<>>)
    \o TagFilters(params)

\* a variant that wraps a single predicate in And too
CombineFiltersAlwaysAnd(filters) ==
    IF Len(filters) = 0 THEN NoneVal ELSE [And |-> filters]

CombineFilters(filters) ==
    IF Len(filters) = 0 THEN NoneVal
    ELSE IF Len(filters) = 1 THEN filters[1]
    ELSE [And |-> filters]

build_filters(params) == CombineFilters(FilterList(params))

(***************************************************************************)
(* format_table.  A record is [Service |-> str, Cost |-> cents].           *)
(***************************************************************************)
MaxOf(S) == CHOOSE m \in S : \A n \in S : n <= m

service_width(data) == MaxOf({Len(data[i].Service) : i \in 1..Len(data)})

cost_width(data) == MaxOf({Len(FormatCost(data[i].Cost)) : i \in 1..Len(data)})

\* insert item behind every element whose cost is not smaller
RECURSIVE InsertByCost(_, _)
InsertByCost(sorted, item) ==
    IF Len(sorted) = 0 THEN <<item>>
    ELSE IF sorted[1].Cost >= item.Cost
         THEN <<sorted[1]>> \o InsertByCost(Tail(sorted), item)
         ELSE <<item>> \o sorted

\* a variant that puts a record before the records of equal cost
RECURSIVE InsertBeforeEqual(_, _)
InsertBeforeEqual(sorted, item) ==
    IF Len(sorted) = 0 THEN <<item>>
    ELSE IF sorted[1].Cost > item.Cost
         THEN <<sorted[1]>> \o InsertBeforeEqual(Tail(sorted), item)
         ELSE <<item>> \o sorted

RECURSIVE SortedByCostUnstable(_)
SortedByCostUnstable(data) ==
    IF Len(data) = 0 THEN <<>>
    ELSE InsertBeforeEqual(SortedByCostUnstable(SubSeq(data, 1, Len(data) - 1)),
                           data[Len(data)])

\* sorted(data, key=cost, reverse=True): descending, equal costs in input order
RECURSIVE SortedByCost(_)
SortedByCost(data) ==
    IF Len(data) = 0 THEN <<>>
    ELSE InsertByCost(SortedByCost(SubSeq(data, 1, Len(data) - 1)), data[Len(data)])

TableHeader(sw, cw) ==
    "| " \o Ljust("Service", sw) \o " | " \o Rjust("Cost (USD)", cw) \o " |"

TableSeparator(sw, cw) ==
    "|" \o Repeat("-", sw + 2) \o "|" \o Repeat("-", cw + 2) \o "|"

TableRow(item, sw, cw) ==
    "| " \o Ljust(item.Service, sw) \o " | " \o Rjust(FormatCost(item.Cost), cw) \o " |"

\* the list table of a non-empty data: header, separator, one row per record
TableLines(data) ==
    LET sw == service_width(data)
        cw == cost_width(data)
        rows == SortedByCost(data)
    IN  <<TableHeader(sw, cw), TableSeparator(sw, cw)>>
        \o [i \in 1..Len(rows) |-> TableRow(rows[i], sw, cw)]

format_table(data) ==
    IF Len(data) = 0 THEN "No billing data available"
    ELSE Join(TableLines(data), "\n")

(***************************************************************************)
(* The state of one invocation of lambda_handler.                          *)
(***************************************************************************)
VARIABLES
    event,           \* the event: its queryStringParameters entry
    clock,           \* the date datetime.now() shows (the environment)
    ticks,           \* midnights passed since the invocation began
    pc,              \* where the invocation is
    params,          \* the parameter map (also build_filters' argument)
    now1,            \* what datetime.now() returned for the default start_date
    now2,            \* what datetime.now() returned for the default end_date
    start_date,
    end_date,
    filters,         \* what build_filters returned
    query,           \* the keyword arguments of get_cost_and_usage
    calls,           \* how many times get_cost_and_usage was called
    response,        \* what get_cost_and_usage returned
    cursor,          \* <<bucket, group>> the loops of the normalization are at
    formatted_data,  \* the list of records (also format_table's argument)
    table,           \* format_table's list of lines
    exc,             \* the exception on its way to the outer except clause
    result           \* what lambda_handler (or the function applied) returned

vars == <<event, clock, ticks, pc, params, now1, now2, start_date, end_date,
          filters, query, calls, response, cursor, formatted_data, table, exc,
          result>>

(***************************************************************************)
(* Responses of the handler.                                               *)
(***************************************************************************)
\* lines 106-109
BadRequest(msg) ==
    [statusCode |-> 400, headers |-> NoneVal,
     body |-> JsonError("Invalid date: " \o msg)]

\* a variant that answers with a fixed text instead of the error's message
ServerErrorNoMessage(e) ==
    [statusCode |-> 500, headers |-> NoneVal, body |-> JsonError("Internal Server Error")]

\* lines 142-145
ServerError(e) ==
    [statusCode |-> 500, headers |-> NoneVal, body |-> JsonError(e.msg)]

\* lines 135-139
Ok(content_type, body) ==
    [statusCode |-> 200, headers |-> [ContentType |-> content_type], body |-> body]

\* a variant that compares the format as given
OutputFormatCaseSensitive(p) == Get(p, "format", "json")

\* line 126
OutputFormat(p) == Lower(Get(p, "format", "json"))

\* lines 128-133: <<content type, body>>
FormatBody(output_format, data) ==
    IF output_format = "table"
    THEN <<"text/plain",
           IF Len(data) > 0 THEN format_table(data) ELSE "No data found">>
    ELSE <<"application/json",
           IF Len(data) > 0 THEN JsonData(data) ELSE JsonMessage("No data found")>>

\* lines 98-103: the ValueError's text, or NoneVal when the dates pass
DateError(sd, ed) ==
    LET s == Strptime(sd)
        e == Strptime(ed)
    IN  IF ~s.ok THEN [msg |-> s.msg]
        ELSE IF ~e.ok THEN [msg |-> e.msg]
        ELSE IF DateLess(e.date, s.date)
        THEN [msg |-> "start_date must be before end_date"]
        ELSE NoneVal

\* lines 8-16: Filter is NoneVal when the query has no Filter key
BillingQuery(sd, ed, f) ==
    [TimePeriod |-> [Start |-> sd, End |-> ed],
     Granularity |-> "MONTHLY",
     Metrics |-> <<"UnblendedCost">>,
     GroupBy |-> <<[Type |-> "DIMENSION", Key |-> "SERVICE"]>>,
     Filter |-> f]

\* a response is None or a dict: `keys` are the dict's keys
Truthy(r) == r # NoneVal /\ r.keys # {}

\* a variant that adds a group's cost to the record its service already has
AppendRecordMerged(data, service, cents) ==
    IF \E i \in 1..Len(data) : data[i].Service = service
    THEN [i \in 1..Len(data) |->
             IF data[i].Service = service
             THEN [Service |-> service, Cost |-> data[i].Cost + cents]
             ELSE data[i]]
    ELSE Append(data, [Service |-> service, Cost |-> cents])

\* line 123
AppendRecord(data, service, cents) ==
    Append(data, [Service |-> service, Cost |-> cents])

(***************************************************************************)
(* The steps of lambda_handler.                                            *)
(***************************************************************************)
\* line 89
GetParams ==
    /\ pc = "get_params"
    /\ params' = (IF event.qsp = "map" THEN event.map ELSE <<>>)
    /\ pc' = "default_start"
    /\ UNCHANGED <<event, clock, ticks, now1, now2, start_date, end_date, filters,
                   query, calls, response, cursor, formatted_data, table, exc, result>>

\* lines 93-94: the default is computed whether the parameter is given or not
GetStartDate ==
    /\ pc = "default_start"
    /\ now1' = clock
    /\ start_date' = Get(params, "start_date", Strftime(FirstOfMonth(clock)))
    /\ pc' = "default_end"
    /\ UNCHANGED <<event, clock, ticks, params, now2, end_date, filters, query,
                   calls, response, cursor, formatted_data, table, exc, result>>

\* lines 95-96
GetEndDate ==
    /\ pc = "default_end"
    /\ now2' = clock
    /\ end_date' = Get(params, "end_date", Strftime(Yesterday(clock)))
    /\ pc' = "validate"
    /\ UNCHANGED <<event, clock, ticks, params, now1, start_date, filters, query,
                   calls, response, cursor, formatted_data, table, exc, result>>

\* lines 98-109
ValidateDates ==
    /\ pc = "validate"
    /\ LET err == DateError(start_date, end_date)
       IN  IF err # NoneVal
           THEN /\ result' = BadRequest(err.msg)
                /\ pc' = "done"
           ELSE /\ pc' = "build_filters"
                /\ UNCHANGED result
    /\ UNCHANGED <<event, clock, ticks, params, now1, now2, start_date, end_date,
                   filters, query, calls, response, cursor, formatted_data, table, exc>>

\* line 112
BuildFilters ==
    /\ pc = "build_filters"
    /\ filters' = build_filters(params)
    /\ pc' = "build_query"
    /\ UNCHANGED <<event, clock, ticks, params, now1, now2, start_date, end_date,
                   query, calls, response, cursor, formatted_data, table, exc, result>>

\* line 115, lines 6-16.  The client is taken to be constructed: the hosting
\* platform provides its region and credentials.
BuildQuery ==
    /\ pc = "build_query"
    /\ query' = BillingQuery(start_date, end_date, filters)
    /\ pc' = "query"
    /\ UNCHANGED <<event, clock, ticks, params, now1, now2, start_date, end_date,
                   filters, calls, response, cursor, formatted_data, table, exc, result>>

\* lines 19-20: the call returns
QueryReturns(r) ==
    /\ pc = "query"
    /\ calls' = calls + 1
    /\ response' = r
    /\ pc' = "normalize"
    /\ UNCHANGED <<event, clock, ticks, params, now1, now2, start_date, end_date,
                   filters, query, cursor, formatted_data, table, exc, result>>

\* a variant that calls again after the first failure
QueryRaisesRetry(msg) ==
    /\ pc = "query"
    /\ calls' = calls + 1
    /\ IF calls = 0
       THEN UNCHANGED <<pc, exc>>
       ELSE /\ exc' = [type |-> "RuntimeError", msg |-> "Cost Explorer Error: " \o msg]
            /\ pc' = "except"
    /\ UNCHANGED <<event, clock, ticks, params, now1, now2, start_date, end_date,
                   filters, query, response, cursor, formatted_data, table, result>>

\* lines 19, 21-22: the call raises, and the error is raised again as RuntimeError
QueryRaises(msg) ==
    /\ pc = "query"
    /\ calls' = calls + 1
    /\ exc' = [type |-> "RuntimeError", msg |-> "Cost Explorer Error: " \o msg]
    /\ pc' = "except"
    /\ UNCHANGED <<event, clock, ticks, params, now1, now2, start_date, end_date,
                   filters, query, response, cursor, formatted_data, table, result>>

\* lines 117-119: enter the loops, unless the response is falsy
StartNormalize ==
    /\ pc = "normalize"
    /\ formatted_data' = <<>>
    /\ IF ~Truthy(response)
       THEN pc' = "format" /\ UNCHANGED <<cursor, exc>>
       ELSE IF "ResultsByTime" \notin response.keys
       THEN /\ exc' = [type |-> "KeyError", msg |-> "'ResultsByTime'"]
            /\ pc' = "except"
            /\ UNCHANGED cursor
       ELSE pc' = "groups" /\ cursor' = <<1, 1>> /\ UNCHANGED exc
    /\ UNCHANGED <<event, clock, ticks, params, now1, now2, start_date, end_date,
                   filters, query, calls, response, table, result>>

\* lines 119-123: one iteration of the loops
NormalizeGroup ==
    /\ pc = "groups"
    /\ LET b == cursor[1]
           g == cursor[2]
           results == response.ResultsByTime
       IN  IF b > Len(results)
           THEN pc' = "format" /\ UNCHANGED <<cursor, formatted_data, exc>>
           ELSE IF ~results[b].hasGroups
           THEN /\ exc' = [type |-> "KeyError", msg |-> "'Groups'"]
                /\ pc' = "except"
                /\ UNCHANGED <<cursor, formatted_data>>
           ELSE IF g > Len(results[b].Groups)
           THEN cursor' = <<b + 1, 1>> /\ UNCHANGED <<pc, formatted_data, exc>>
           ELSE LET group == results[b].Groups[g]
                    amount == ParseFloat(group.Amount)
                IN  IF Len(group.Keys) = 0
                    THEN /\ exc' = [type |-> "IndexError",
                                    msg |-> "list index out of range"]
                         /\ pc' = "except"
                         /\ UNCHANGED <<cursor, formatted_data>>
                    ELSE IF ~amount.ok
                    THEN /\ exc' = [type |-> "ValueError", msg |-> amount.msg]
                         /\ pc' = "except"
                         /\ UNCHANGED <<cursor, formatted_data>>
                    ELSE /\ formatted_data' =
                              AppendRecord(formatted_data, group.Keys[1], amount.cents)
                         /\ cursor' = <<b, g + 1>>
                         /\ UNCHANGED <<pc, exc>>
    /\ UNCHANGED <<event, clock, ticks, params, now1, now2, start_date, end_date,
                   filters, query, calls, response, table, result>>

\* lines 126-139
FormatResponse ==
    /\ pc = "format"
    /\ LET output_format == OutputFormat(params)
           shaped == FormatBody(output_format, formatted_data)
       IN  /\ result' = Ok(shaped[1], shaped[2])
           /\ table' = (IF output_format = "table" /\ Len(formatted_data) > 0
                        THEN TableLines(formatted_data) ELSE <<>>)
    /\ pc' = "done"
    /\ UNCHANGED <<event, clock, ticks, params, now1, now2, start_date, end_date,
                   filters, query, calls, response, cursor, formatted_data, exc>>

\* lines 141-145
HandleException ==
    /\ pc = "except"
    /\ result' = ServerError(exc)
    /\ pc' = "done"
    /\ UNCHANGED <<event, clock, ticks, params, now1, now2, start_date, end_date,
                   filters, query, calls, response, cursor, formatted_data, table, exc>>

\* midnight passes while the handler has still to read the clock
Tick ==
    /\ pc \in {"get_params", "default_start", "default_end"}
    /\ ticks < MaxTicks
    /\ clock' = NextDay(clock)
    /\ ticks' = ticks + 1
    /\ UNCHANGED <<event, pc, params, now1, now2, start_date, end_date, filters,
                   query, calls, response, cursor, formatted_data, table, exc, result>>

(***************************************************************************)
(* The two functions applied on their own.                                 *)
(***************************************************************************)
\* lines 45-84: build_filters(params)
ApplyBuildFilters ==
    /\ pc = "filters_in"
    /\ filters' = build_filters(params)
    /\ result' = build_filters(params)
    /\ pc' = "filters_out"
    /\ UNCHANGED <<event, clock, ticks, params, now1, now2, start_date, end_date,
                   query, calls, response, cursor, formatted_data, table, exc>>

\* lines 25-42: format_table(data)
ApplyFormatTable ==
    /\ pc = "table_in"
    /\ table' = (IF Len(formatted_data) = 0 THEN <<>> ELSE TableLines(formatted_data))
    /\ result' = format_table(formatted_data)
    /\ pc' = "table_out"
    /\ UNCHANGED <<event, clock, ticks, params, now1, now2, start_date, end_date,
                   filters, query, calls, response, cursor, formatted_data, exc>>

(***************************************************************************)
(* Inputs.                                                                 *)
(***************************************************************************)
SeqsUpTo(S, n) == UNION {[1..k -> S] : k \in 0..n}

\* an optional entry of a parameter map
Entry(k, values) == {<<>>} \cup {<<<<k, v>>>> : v \in values}

DateInputs ==
    {"2025-03-01", "2025-03-31", "2025-3-9", "2025-02-30", "2025-03-011", "03/01/2025"}

FormatInputs == {"table", "TaBLe", "json"}

FilterInputs == {<<>>, <<<<"services", "EC2,S3">>, <<"tag_env", "prod">>>>}

HandlerParams ==
    {a \o b \o c \o d : a \in Entry("start_date", DateInputs),
                         b \in Entry("end_date", DateInputs),
                         c \in Entry("format", FormatInputs),
                         d \in FilterInputs}

\* queryStringParameters is missing, null, or a map
Events ==
    {[qsp |-> "missing", map |-> <<>>], [qsp |-> "null", map |-> <<>>]}
    \cup {[qsp |-> "map", map |-> m] : m \in HandlerParams}

Clocks == {<<2025, 3, 1>>, <<2025, 3, 15>>, <<2024, 12, 31>>, <<2024, 2, 29>>}

Group(keys, amount) == [Keys |-> keys, Amount |-> amount]
Bucket(groups) == [hasGroups |-> TRUE, Groups |-> groups]
Response(buckets) ==
    [keys |-> {"ResultsByTime", "ResponseMetadata"}, ResultsByTime |-> buckets]

GoodGroups == {Group(<<"EC2">>, "12.30"), Group(<<"S3", "us-east-1">>, "100")}

GoodResponses ==
    {Response(bs) :
        bs \in SeqsUpTo({Bucket(gs) : gs \in SeqsUpTo(GoodGroups, MaxGroups)},
                        MaxBuckets)}

\* None and the empty dict
FalsyResponses == {NoneVal, [keys |-> {}, ResultsByTime |-> <<>>]}

\* responses the normalization cannot read: a missing key, an empty key list,
\* an amount that is no number (behind a good group, and in a later bucket)
MalformedResponses ==
    {[keys |-> {"ResponseMetadata"}, ResultsByTime |-> <<>>],
     Response(<<[hasGroups |-> FALSE, Groups |-> <<>>]>>),
     Response(<<Bucket(<<Group(<<>>, "1.2")>>)>>),
     Response(<<Bucket(<<Group(<<"EC2">>, "12.30"), Group(<<"S3">>, "abc")>>)>>),
     Response(<<Bucket(<<Group(<<"EC2">>, "12.30")>>), Bucket(<<Group(<<"EC2">>, "")>>)>>)}

AllResponses == GoodResponses \cup FalsyResponses \cup MalformedResponses

HandlerResponses ==
    FalsyResponses \cup MalformedResponses
    \cup {r \in GoodResponses : Len(r.ResultsByTime) <= 1}

RemoteErrors == {"ValidationException", "Unable to locate credentials"}

FilterKeys == {"services", "regions", "tag_env", "tag_team", "tag_", "tags", "format"}
FilterValues == {"EC2,S3", "us-east-1", ""}

DistinctKeys(m) == \A i, j \in 1..Len(m) : i # j => m[i][1] # m[j][1]

ParamMaps == {m \in SeqsUpTo(FilterKeys \X FilterValues, MaxParams) : DistinctKeys(m)}

TableServices == {"S3", "Lambda", "CloudWatch"}
TableCosts == {5, 1230, 10000, 1234567890}

RecordLists ==
    SeqsUpTo({[Service |-> sv, Cost |-> c] : sv \in TableServices, c \in TableCosts},
             MaxRows)

(***************************************************************************)
(* Specifications.                                                         *)
(***************************************************************************)
\* everything an invocation has not yet set
Unset ==
    /\ ticks = 0
    /\ params = <<>>
    /\ now1 = NoneVal
    /\ now2 = NoneVal
    /\ start_date = ""
    /\ end_date = ""
    /\ filters = NoneVal
    /\ query = NoneVal
    /\ calls = 0
    /\ response = NoneVal
    /\ cursor = <<0, 0>>
    /\ formatted_data = <<>>
    /\ table = <<>>
    /\ exc = NoneVal
    /\ result = NoneVal

\* lambda_handler is invoked
Init ==
    /\ event \in Events
    /\ clock \in Clocks
    /\ pc = "get_params"
    /\ Unset

Next ==
    \/ GetParams
    \/ GetStartDate
    \/ GetEndDate
    \/ ValidateDates
    \/ BuildFilters
    \/ BuildQuery
    \/ \E r \in HandlerResponses : QueryReturns(r)
    \/ \E msg \in RemoteErrors : QueryRaises(msg)
    \/ StartNormalize
    \/ NormalizeGroup
    \/ FormatResponse
    \/ HandleException
    \/ Tick

Spec == Init /\ [][Next]_vars

\* the invocations of a March request at the moment get_cost_and_usage returned
InitNormalize ==
    /\ event \in {[qsp |-> "map", map |-> m] : m \in Entry("format", {"table"})}
    /\ clock = <<2025, 3, 15>>
    /\ ticks = 0
    /\ pc = "normalize"
    /\ params = event.map
    /\ now1 = clock
    /\ now2 = clock
    /\ start_date = Strftime(FirstOfMonth(clock))
    /\ end_date = Strftime(Yesterday(clock))
    /\ filters = build_filters(params)
    /\ query = BillingQuery(start_date, end_date, filters)
    /\ calls = 1
    /\ response \in AllResponses
    /\ cursor = <<0, 0>>
    /\ formatted_data = <<>>
    /\ table = <<>>
    /\ exc = NoneVal
    /\ result = NoneVal

NextNormalize ==
    \/ StartNormalize
    \/ NormalizeGroup
    \/ FormatResponse
    \/ HandleException

SpecNormalize == InitNormalize /\ [][NextNormalize]_vars

\* build_filters applied to a parameter map
InitFilters ==
    /\ event = [qsp |-> "missing", map |-> <<>>]
    /\ clock = <<2025, 3, 15>>
    /\ pc = "filters_in"
    /\ ticks = 0
    /\ params \in ParamMaps
    /\ now1 = NoneVal
    /\ now2 = NoneVal
    /\ start_date = ""
    /\ end_date = ""
    /\ filters = NoneVal
    /\ query = NoneVal
    /\ calls = 0
    /\ response = NoneVal
    /\ cursor = <<0, 0>>
    /\ formatted_data = <<>>
    /\ table = <<>>
    /\ exc = NoneVal
    /\ result = NoneVal

NextFilters == ApplyBuildFilters

SpecFilters == InitFilters /\ [][NextFilters]_vars

\* format_table applied to a list of records
InitTable ==
    /\ event = [qsp |-> "missing", map |-> <<>>]
    /\ clock = <<2025, 3, 15>>
    /\ pc = "table_in"
    /\ ticks = 0
    /\ params = <<>>
    /\ now1 = NoneVal
    /\ now2 = NoneVal
    /\ start_date = ""
    /\ end_date = ""
    /\ filters = NoneVal
    /\ query = NoneVal
    /\ calls = 0
    /\ response = NoneVal
    /\ cursor = <<0, 0>>
    /\ formatted_data \in RecordLists
    /\ table = <<>>
    /\ exc = NoneVal
    /\ result = NoneVal

NextTable == ApplyFormatTable

SpecTable == InitTable /\ [][NextTable]_vars

(***************************************************************************)
(* Properties.                                                             *)
(***************************************************************************)
Returned == pc = "done"

\* the invocation is past the date validation
PastValidation == pc \notin {"get_params", "default_start", "default_end", "validate"}

\* a calendar date written YYYY-MM-DD: four, two and two digits
IsIsoDate(s) ==
    /\ Len(s) = 10
    /\ IsDigits(SubSeq(s, 1, 4)) /\ IsDigits(SubSeq(s, 6, 7)) /\ IsDigits(SubSeq(s, 9, 10))
    /\ SubSeq(s, 5, 5) = "-" /\ SubSeq(s, 8, 8) = "-"
    /\ ToInt(SubSeq(s, 1, 4)) >= 1
    /\ ToInt(SubSeq(s, 6, 7)) \in 1..12
    /\ ToInt(SubSeq(s, 9, 10)) \in 1..DaysInMonth(ToInt(SubSeq(s, 1, 4)), ToInt(SubSeq(s, 6, 7)))

IsoDate(s) == <<ToInt(SubSeq(s, 1, 4)), ToInt(SubSeq(s, 6, 7)), ToInt(SubSeq(s, 9, 10))>>

InvalidDateResponse ==
    /\ Returned
    /\ result.statusCode = 400
    /\ StartsWith(result.body, "{\"error\": \"Invalid date: ")

\* C1: two well-formed YYYY-MM-DD dates with start_date <= end_date pass the
\* validation; with start_date > end_date, or with either date malformed, the
\* handler returns 400 with the body {"error": "Invalid date: <message>"}.
C1_DateValidation ==
    PastValidation =>
        LET ordered == /\ IsIsoDate(start_date)
                       /\ IsIsoDate(end_date)
                       /\ ~DateLess(IsoDate(end_date), IsoDate(start_date))
        IN  IF ordered THEN ~(Returned /\ result.statusCode = 400)
            ELSE InvalidDateResponse

\* C2: an invocation calls get_cost_and_usage exactly once when the dates pass
\* the validation and never when it returns 400; it never calls it again after
\* a failure, and it calls it with the validated dates and the built filter.
C2_OneRemoteCall ==
    /\ calls \in {0, 1}
    /\ pc \in {"get_params", "default_start", "default_end", "validate",
               "build_filters", "build_query", "query"} => calls = 0
    /\ pc \in {"normalize", "groups", "format", "except"} => calls = 1
    /\ Returned => (calls = 0 <=> result.statusCode = 400)
    /\ Returned => (calls = 1 <=> DateError(start_date, end_date) = NoneVal)
    /\ calls = 1 =>
           /\ DateError(start_date, end_date) = NoneVal
           /\ query.TimePeriod = [Start |-> start_date, End |-> end_date]
           /\ query.Filter = build_filters(params)

\* C2 witness: the remote call failed, the handler returned, one call was made
C2_Witness ==
    /\ Returned
    /\ exc # NoneVal
    /\ exc.type = "RuntimeError"
    /\ calls = 1

IsTagKey(k) == Len(k) >= 4 /\ SubSeq(k, 1, 4) = "tag_"

TagPositions(m) == {i \in 1..Len(m) : IsTagKey(m[i][1])}

Count(b) == IF b THEN 1 ELSE 0

\* value is what the comma-separated list values spells
Spells(values, value) ==
    /\ Join(values, ",") = value
    /\ \A i \in 1..Len(values) : \A j \in 1..Len(values[i]) : Char(values[i], j) # ","

IsDimension(f, key, value) ==
    /\ DOMAIN f = {"Dimensions"}
    /\ f.Dimensions.Key = key
    /\ Spells(f.Dimensions.Values, value)

IsTag(f, param_key, value) ==
    /\ DOMAIN f = {"Tags"}
    /\ "tag_" \o f.Tags.Key = param_key
    /\ Spells(f.Tags.Values, value)

\* C3: build_filters returns None when no services, regions or tag_* key is
\* given, the one predicate itself when one is given, and otherwise one And
\* node holding every predicate once: services, regions, then the tags in the
\* order of the map's keys.
C3_FilterShape ==
    pc = "filters_out" =>
        LET svc == HasKey(params, "services")
            reg == HasKey(params, "regions")
            tags == TagPositions(params)
            n == Count(svc) + Count(reg) + Cardinality(tags)
            list == IF n = 0 THEN <<>>
                    ELSE IF n = 1 THEN <<result>>
                    ELSE result.And
        IN  /\ n = 0 => result = NoneVal
            /\ n = 1 => DOMAIN result \in {{"Dimensions"}, {"Tags"}}
            /\ n >= 2 => DOMAIN result = {"And"}
            /\ Len(list) = n
            /\ svc => IsDimension(list[1], "SERVICE", Get(params, "services", ""))
            /\ reg => IsDimension(list[1 + Count(svc)], "REGION",
                                  Get(params, "regions", ""))
            /\ \A i \in tags :
                   IsTag(list[Count(svc) + Count(reg)
                              + Cardinality({j \in tags : j <= i})],
                         params[i][1], params[i][2])

\* C3 witness: three predicates, the tag key first in the map
C3_Witness ==
    /\ pc = "filters_out"
    /\ Len(params) = 3
    /\ IsTagKey(params[1][1])
    /\ params[2][1] = "regions"
    /\ params[3][1] = "services"

\* C4: a failure outside the date validation ends the invocation with 500 and
\* the body {"error": "<message>"} carrying the error's message, never with
\* 200 and never with data; the handler always returns.
C4_FailuresAre500 ==
    /\ pc = "except" => exc # NoneVal /\ result = NoneVal
    /\ pc = "except" => ENABLED HandleException
    /\ Returned => result # NoneVal /\ result.statusCode \in {200, 400, 500}
    /\ Returned /\ response \in MalformedResponses => result.statusCode = 500
    /\ Returned /\ result.statusCode \in {200, 400} => exc = NoneVal
    /\ Returned /\ exc # NoneVal =>
           /\ result.statusCode = 500
           /\ result.headers = NoneVal
           /\ result.body = "{\"error\": \"" \o exc.msg \o "\"}"
           /\ exc.type = "RuntimeError" =>
                  \E msg \in RemoteErrors : exc.msg = "Cost Explorer Error: " \o msg

\* C4 witness: a bad amount behind a good group: the record already built is
\* dropped and 500 returned
C4_Witness ==
    /\ Returned
    /\ exc # NoneVal
    /\ exc.type = "ValueError"
    /\ Len(formatted_data) > 0
    /\ result.statusCode = 500

\* s is the word table in any mix of cases
SpellsTable(s) ==
    /\ Len(s) = 5
    /\ SubSeq(s, 1, 1) \in {"t", "T"}
    /\ SubSeq(s, 2, 2) \in {"a", "A"}
    /\ SubSeq(s, 3, 3) \in {"b", "B"}
    /\ SubSeq(s, 4, 4) \in {"l", "L"}
    /\ SubSeq(s, 5, 5) \in {"e", "E"}

\* C5: a 200 response is decided by whether format spells table (in any case)
\* and whether the list of records is empty: the table as text/plain, "No data
\* found" as text/plain, {"data": [...]} as application/json, or
\* {"message": "No data found"} as application/json; never format_table's "No
\* billing data available".
C5_ResponseShape ==
    Returned /\ result.statusCode = 200 =>
        LET as_table == HasKey(params, "format") /\ SpellsTable(Get(params, "format", ""))
            empty == formatted_data = <<>>
            content == result.headers.ContentType
        IN  /\ as_table /\ ~empty =>
                   /\ content = "text/plain"
                   /\ result.body = format_table(formatted_data)
                   /\ StartsWith(result.body, "| Service")
            /\ as_table /\ empty =>
                   content = "text/plain" /\ result.body = "No data found"
            /\ ~as_table /\ ~empty =>
                   /\ content = "application/json"
                   /\ result.body = JsonData(formatted_data)
                   /\ StartsWith(result.body, "{\"data\": [{\"Service\": ")
            /\ ~as_table /\ empty =>
                   /\ content = "application/json"
                   /\ result.body = "{\"message\": \"No data found\"}"
            /\ result.body # "No billing data available"

\* C5 witness: format=TaBLe and no record
C5_Witness ==
    /\ Returned
    /\ result.statusCode = 200
    /\ Get(params, "format", "") = "TaBLe"
    /\ formatted_data = <<>>

EndsWith(s, p) == Len(s) >= Len(p) /\ SubSeq(s, Len(s) - Len(p) + 1, Len(s)) = p

\* the place of record k among the rows: behind every record of greater cost
\* and every earlier record of equal cost
Rank(data, k) ==
    1 + Cardinality({j \in 1..Len(data) : data[j].Cost > data[k].Cost})
      + Cardinality({j \in 1..k - 1 : data[j].Cost = data[k].Cost})

\* C6: format_table writes one row per record, by cost descending, records of
\* equal cost in their input order.
C6_RowsSortedStable ==
    pc = "table_out" /\ Len(formatted_data) > 0 =>
        /\ result = Join(table, "\n")
        /\ Len(table) = Len(formatted_data) + 2
        /\ \A k \in 1..Len(formatted_data) :
               LET row == table[2 + Rank(formatted_data, k)]
               IN  /\ StartsWith(row, "| " \o formatted_data[k].Service \o " ")
                   /\ EndsWith(row, " " \o FormatCost(formatted_data[k].Cost) \o " |")

\* C6 witness: the first and the third record cost the same, the second more
C6_Witness ==
    /\ pc = "table_out"
    /\ Len(formatted_data) = 3
    /\ formatted_data[1].Cost = formatted_data[3].Cost
    /\ formatted_data[1].Service # formatted_data[3].Service
    /\ formatted_data[2].Cost > formatted_data[1].Cost

Max2(a, b) == IF a >= b THEN a ELSE b

\* C7: each column is as wide as the longest of its header label and its
\* values, so every line of the table has the same length.
C7_ColumnWidths ==
    pc = "table_out" /\ Len(formatted_data) > 0 =>
        LET data == formatted_data
            sw == Max2(Len("Service"), MaxOf({Len(data[i].Service) : i \in 1..Len(data)}))
            cw == Max2(Len("Cost (USD)"),
                       MaxOf({Len(FormatCost(data[i].Cost)) : i \in 1..Len(data)}))
        IN  \A i \in 1..Len(table) : Len(table[i]) = sw + cw + 7

RECURSIVE GroupsBefore(_, _)
\* how many groups the buckets before bucket b hold
GroupsBefore(results, b) ==
    IF b <= 1 THEN 0
    ELSE GroupsBefore(results, b - 1) + Len(results[b - 1].Groups)

\* C8: the records are the groups of all buckets, one record per group, in
\* bucket order and within a bucket in group order, each with its group's
\* first key and amount (groups of the same service in different buckets stay
\* apart); an absent or empty response gives no record.
C8_Flattened ==
    pc = "format" \/ (Returned /\ result.statusCode = 200) =>
        IF ~Truthy(response) THEN formatted_data = <<>>
        ELSE LET results == response.ResultsByTime
             IN  /\ Len(formatted_data) = GroupsBefore(results, Len(results) + 1)
                 /\ \A b \in 1..Len(results) : \A g \in 1..Len(results[b].Groups) :
                        LET rec == formatted_data[GroupsBefore(results, b) + g]
                            group == results[b].Groups[g]
                        IN  /\ rec.Service = group.Keys[1]
                            /\ rec.Cost = AmountCents(group.Amount)

\* C8 witness: two buckets of two groups, the same service first in both
C8_Witness ==
    /\ pc = "format"
    /\ Len(formatted_data) = 4
    /\ Len(response.ResultsByTime) = 2
    /\ formatted_data[1].Service = formatted_data[3].Service
    /\ formatted_data[2].Service # formatted_data[1].Service

NoDatesGiven == ~HasKey(params, "start_date") /\ ~HasKey(params, "end_date")

\* C9: the clock is read once per invocation: the default start_date and the
\* default end_date are those of one instant.
C9_OneInstant ==
    pc \notin {"get_params", "default_start", "default_end"} /\ NoDatesGiven =>
        \E now \in {now1, now2} :
            /\ start_date = Strftime(FirstOfMonth(now))
            /\ end_date = Strftime(Yesterday(now))

\* C10: with no dates given and one calendar date shown all through the
\* request, the handler returns 400 (start_date must be before end_date)
\* exactly on the first day of a month; on any other day the defaults pass
\* and the remote query is made.
C10_FirstOfMonth ==
    PastValidation /\ NoDatesGiven /\ now1 = now2 =>
        IF now1[3] = 1
        THEN /\ Returned
             /\ result.statusCode = 400
             /\ result.body
                  = "{\"error\": \"Invalid date: start_date must be before end_date\"}"
             /\ calls = 0
        ELSE /\ ~(Returned /\ result.statusCode = 400)
             /\ pc \notin {"build_filters", "build_query", "query"} => calls = 1

\* C10 witness: a request without dates on the first of January
C10_Witness ==
    /\ Returned
    /\ NoDatesGiven
    /\ now1 = now2
    /\ now1 = <<2025, 1, 1>>
    /\ result.statusCode = 400

====
